---- MODULE Spec2Model ----
(***************************************************************************)
(* kdtree: PointCloud / Node / BoundingBox / Point.                        *)
(*                                                                         *)
(* Coordinates are integers; float arithmetic is modelled by F32, which    *)
(* rounds every product and sum to the nearest IEEE-754 single (24-bit     *)
(* significand, ties to even), the way a build that evaluates float        *)
(* expressions in single precision does.  Indices are 0-based as in the    *)
(* code: At(points, i) is points[i].  A pointer is a sequence of length 0  *)
(* (nullptr) or 1 (the pointee).                                           *)
(***************************************************************************)
EXTENDS Integers, Sequences, FiniteSets

\* Node<T>::N, the split threshold.  The source sets it to 50
\* (src/main.cpp:172); it is scaled down here so that trees with internal
\* nodes, and nested internal nodes, arise within MaxPoints points.
N == 1
\* largest buffer a caller hands to setItems in SpecTree
MaxPoints == 4
\* largest buffer the caller of Spec grows the cloud to
MaxCloud == 2
\* largest k passed to findKNearest
MaxK == 3
\* initial value of the static Node<T>::dist
DistInit == 1000000000
\* value PointCloud::findKNearest resets Node<T>::dist to
DistReset == 100000000

Origin == <<0, 0, 0>>
\* coordinates of the points a caller may store (SpecTree)
PointSet == { <<0, 0, 0>>, <<0, 2, 0>>, <<3, 0, 0>>, <<-1, 0, 4>> }
\* reference points / sphere centres of the queries (SpecTree); the last one is 10^4 away
QuerySet == { <<0, 1, 0>>, <<3, 0, 0>>, <<10000, 0, 0>> }
\* the same for the caller of Spec
CloudPointSet == { <<0, 0, 0>>, <<3, 0, 0>> }
CloudQuerySet == { <<0, 1, 0>>, <<10000, 0, 0>> }
\* squared radii of findInRadius
RadiusSet == { 0, 1, 10 }
\* what an out-of-range read of the buffer may yield
Garbage == { <<0, 0, 0>>, <<7, -7, 7>> }

VARIABLES
    m_points,   \* PointCloud::m_points
    m_kdtree,   \* PointCloud::m_kdtree: <<>> or <<root node>>
    Node_dist,  \* static float Node<T>::dist
    result,     \* the caller's result vector
    ret,        \* return value of the last query ("none" if the last call was no query)
    op,         \* the last PointCloud call and its arguments
    rebuilds,   \* history: rebuildTree calls since creation / the last mutation (capped at 2)
    before,     \* history: [points, kdtree] on entry to the last call if it was rebuildTree
    fault,      \* history: crop was called on an empty range or read past the buffer
    status,     \* "running", or "crashed" after an out-of-range read that trapped
    th          \* SpecConc: the threads that call findKNearest concurrently

vars == <<m_points, m_kdtree, Node_dist, result, ret, op, rebuilds, before, fault, status, th>>

At(points, i) == points[i + 1]

----------------------------------------------------------------------------
(* float *)

RECURSIVE Ulp(_, _)
Ulp(x, u) == IF x < 16777216 * u THEN u ELSE Ulp(x, 2 * u)

\* x >= 0 rounded to the nearest single-precision float
F32(x) ==
    IF x < 16777216 THEN x
    ELSE LET u == Ulp(x, 1)
             q == x \div u
             r == x % u
         IN  IF 2 * r > u \/ (2 * r = u /\ q % 2 = 1) THEN (q + 1) * u ELSE q * u

----------------------------------------------------------------------------
(* Point *)

Point(x, y, z) == [p |-> <<x, y, z>>, dist |-> 0]

\* the value Point::distance2 stores in dist and returns
Distance2(pt, x) ==
    F32(F32(F32((x[1] - pt.p[1]) * (x[1] - pt.p[1]))
            + F32((x[2] - pt.p[2]) * (x[2] - pt.p[2])))
        + F32((x[3] - pt.p[3]) * (x[3] - pt.p[3])))

smaller_dist(x, y) == x.dist < y.dist

----------------------------------------------------------------------------
(* BoundingBox *)

RECURSIVE CropLoop(_, _, _, _)
CropLoop(points, i, end, box) ==
    IF i >= end THEN box
    ELSE LET c == At(points, i).p
             lo == [a \in 1..3 |-> IF c[a] < box.p[a] THEN c[a] ELSE box.p[a]]
             hi == [a \in 1..3 |-> IF c[a] > box.q[a] THEN c[a] ELSE box.q[a]]
         IN  CropLoop(points, i + 1, end, [p |-> lo, q |-> hi])

\* a crop whose loop stops one point early
Crop_SkipsLast(points, begin, end, garbage) ==
    LET first == IF begin < Len(points) THEN At(points, begin).p ELSE garbage
    IN  CropLoop(points, begin + 1, end - 1, [p |-> first, q |-> first])

\* crop reads points[begin] unconditionally; past the buffer the read yields garbage
Crop(points, begin, end, garbage) ==
    LET first == IF begin < Len(points) THEN At(points, begin).p ELSE garbage
    IN  CropLoop(points, begin + 1, end, [p |-> first, q |-> first])

CropFault(points, begin, end) == begin >= end \/ begin >= Len(points)

\* 0-based axis
getSplitAxis(box) ==
    LET temp1 == box.q[1] - box.p[1]
        temp2 == box.q[2] - box.p[2]
        temp3 == box.q[3] - box.p[3]
    IN  IF temp1 > temp2 /\ temp1 > temp3 THEN 0
        ELSE 1 + (IF temp3 > temp2 THEN 1 ELSE 0)

BoxT(box, x, a) ==
    IF x[a] <= box.p[a] THEN box.p[a] - x[a]
    ELSE IF x[a] >= box.q[a] THEN x[a] - box.q[a]
    ELSE 0

BoxDistance2(box, x) ==
    F32(F32(F32(BoxT(box, x, 1) * BoxT(box, x, 1))
            + F32(BoxT(box, x, 2) * BoxT(box, x, 2)))
        + F32(BoxT(box, x, 3) * BoxT(box, x, 3)))

----------------------------------------------------------------------------
(* Node: construction *)

RemoveAt(s, i) == SubSeq(s, 1, i - 1) \o SubSeq(s, i + 1, Len(s))

RECURSIVE Reorderings(_)
Reorderings(s) ==
    IF s = <<>> THEN { <<>> }
    ELSE UNION { { <<s[i]>> \o t : t \in Reorderings(RemoveAt(s, i)) } : i \in 1..Len(s) }

\* SortAxisComparator(sortAxis)(a, b)
lessThan(sortAxis, a, b) == a.p[sortAxis + 1] < b.p[sortAxis + 1]

\* std::nth_element(points.begin() + begin, points.begin() + nth, points.begin() + end,
\* lessThan): every reordering of [begin, end) the standard allows, i.e. nothing before
\* nth is greater than the element at nth and nothing after it is smaller.
nth_element(points, begin, nth, end, sortAxis) ==
    LET k == nth - begin + 1
        ok(t) == /\ \A i \in 1..(k - 1) : ~lessThan(sortAxis, t[k], t[i])
                 /\ \A j \in (k + 1)..Len(t) : ~lessThan(sortAxis, t[j], t[k])
    IN  { SubSeq(points, 1, begin) \o t \o SubSeq(points, end + 1, Len(points)) :
              t \in { u \in Reorderings(SubSeq(points, begin + 1, end)) : ok(u) } }

Leaf(begin, end, box) ==
    [m_begin |-> begin, m_end |-> end, box |-> box, left |-> <<>>, right |-> <<>>]

\* a constructor that splits only ranges of more than N + 1 points
RECURSIVE NodeCtor_SplitsLate(_, _, _, _)
NodeCtor_SplitsLate(points, begin, end, garbage) ==
    LET box == Crop(points, begin, end, garbage)
        bad == CropFault(points, begin, end)
    IN  IF end - begin > N + 1
        THEN LET median == begin + (end - begin) \div 2
                 axis == getSplitAxis(box)
             IN  UNION { UNION { { [points |-> r.points,
                                    node |-> [m_begin |-> begin, m_end |-> end, box |-> box,
                                              left |-> <<l.node>>, right |-> <<r.node>>],
                                    fault |-> bad \/ l.fault \/ r.fault] :
                                   r \in NodeCtor_SplitsLate(l.points, median, end, garbage) } :
                                 l \in NodeCtor_SplitsLate(pts, begin, median, garbage) } :
                         pts \in nth_element(points, begin, median, end, axis) }
        ELSE { [points |-> points, node |-> Leaf(begin, end, box), fault |-> bad] }

\* Node<T>::Node(points, begin, end): the set of outcomes, each the reordered buffer,
\* the node built, and whether some crop call was outside its precondition.
RECURSIVE NodeCtor(_, _, _, _)
NodeCtor(points, begin, end, garbage) ==
    LET box == Crop(points, begin, end, garbage)
        bad == CropFault(points, begin, end)
    IN  IF end - begin > N
        THEN LET median == begin + (end - begin) \div 2
                 axis == getSplitAxis(box)
             IN  UNION { UNION { { [points |-> r.points,
                                    node |-> [m_begin |-> begin, m_end |-> end, box |-> box,
                                              left |-> <<l.node>>, right |-> <<r.node>>],
                                    fault |-> bad \/ l.fault \/ r.fault] :
                                   r \in NodeCtor(l.points, median, end, garbage) } :
                                 l \in NodeCtor(pts, begin, median, garbage) } :
                         pts \in nth_element(points, begin, median, end, axis) }
        ELSE { [points |-> points, node |-> Leaf(begin, end, box), fault |-> bad] }

isLeaf(node) == node.left = <<>>

----------------------------------------------------------------------------
(* Node: searches.  A search state st is [points, dist, result]: the buffer  *)
(* (whose cached distances the search overwrites), the static bound, and the *)
(* result vector.                                                            *)

\* std::sort(result.begin(), result.end(), T::smaller_dist) on a short vector: an
\* insertion sort (equal distances keep their order)
RECURSIVE InsertSorted(_, _)
InsertSorted(s, x) ==
    IF s = <<>> THEN <<x>>
    ELSE IF smaller_dist(x, s[Len(s)]) THEN Append(InsertSorted(SubSeq(s, 1, Len(s) - 1), x), s[Len(s)])
    ELSE Append(s, x)

RECURSIVE sort(_)
sort(s) == IF s = <<>> THEN <<>> ELSE InsertSorted(sort(SubSeq(s, 1, Len(s) - 1)), s[Len(s)])

\* std::upper_bound(result.begin(), result.end(), x, T::smaller_dist), as a 0-based index
upper_bound(s, x) == Cardinality({ i \in 1..Len(s) : ~smaller_dist(x, s[i]) })

InsertAt(s, i, x) == SubSeq(s, 1, i) \o <<x>> \o SubSeq(s, i + 1, Len(s))

\* the body of the leaf loop's if in Node::findKNearest: m_points[i] is added to result
\* and the bound is updated (k > 0 here: the cloud calls the node only then, so the
\* unsigned k-1 does not wrap)
KNearestInsert(st, i, k) ==
    LET pt == At(st.points, i)
    IN  IF Len(st.result) < k - 1
        THEN [points |-> st.points, dist |-> st.dist, result |-> Append(st.result, pt)]
        ELSE IF Len(st.result) < k
        THEN LET r == sort(Append(st.result, pt))
             IN  [points |-> st.points, dist |-> r[Len(r)].dist, result |-> r]
        ELSE LET r == SubSeq(InsertAt(st.result, upper_bound(st.result, pt), pt), 1, Len(st.result))
             IN  [points |-> st.points, dist |-> r[Len(r)].dist, result |-> r]

\* m_points[i].distance2(p): the distance is cached in the point
KNearestMeasure(st, i, p) ==
    [points |-> [st.points EXCEPT ![i + 1].dist = Distance2(At(st.points, i), p)],
     dist |-> st.dist, result |-> st.result]

\* one iteration of the leaf loop of Node::findKNearest
KNearestVisit(st, i, p, k) ==
    LET s1 == KNearestMeasure(st, i, p)
    IN  IF At(s1.points, i).dist < s1.dist THEN KNearestInsert(s1, i, k) ELSE s1

RECURSIVE KNearestLeaf(_, _, _, _, _)
KNearestLeaf(st, i, end, p, k) ==
    IF i >= end THEN st ELSE KNearestLeaf(KNearestVisit(st, i, p, k), i + 1, end, p, k)

\* a k-NN search that never returns to the child it visited second
RECURSIVE Node_findKNearest_NearOnly(_, _, _, _)
Node_findKNearest_NearOnly(node, st, p, k) ==
    IF ~isLeaf(node)
    THEN LET left  == node.left[1]
             right == node.right[1]
             tl == BoxDistance2(left.box, p)
             tr == BoxDistance2(right.box, p)
         IN  IF tl < st.dist /\ tl < tr
             THEN Node_findKNearest_NearOnly(left, st, p, k)
             ELSE IF tr < st.dist
             THEN Node_findKNearest_NearOnly(right, st, p, k)
             ELSE st
    ELSE KNearestLeaf(st, node.m_begin, node.m_end, p, k)

\* Node<T>::findKNearest(p, k, result)
RECURSIVE Node_findKNearest(_, _, _, _)
Node_findKNearest(node, st, p, k) ==
    IF ~isLeaf(node)
    THEN LET left  == node.left[1]
             right == node.right[1]
             tl == BoxDistance2(left.box, p)
             tr == BoxDistance2(right.box, p)
         IN  IF tl < st.dist /\ tl < tr
             THEN LET s1 == Node_findKNearest(left, st, p, k)
                  IN  IF tr < s1.dist THEN Node_findKNearest(right, s1, p, k) ELSE s1
             ELSE IF tr < st.dist
             THEN LET s1 == Node_findKNearest(right, st, p, k)
                  IN  IF tl < s1.dist THEN Node_findKNearest(left, s1, p, k) ELSE s1
             ELSE st
    ELSE KNearestLeaf(st, node.m_begin, node.m_end, p, k)

RECURSIVE InRadiusLeaf(_, _, _, _, _)
InRadiusLeaf(st, i, end, m, radius2) ==
    IF i >= end THEN st
    ELSE LET d   == Distance2(At(st.points, i), m)
             pts == [st.points EXCEPT ![i + 1].dist = d]
         IN  InRadiusLeaf([points |-> pts, dist |-> st.dist,
                           result |-> IF d <= radius2 THEN Append(st.result, pts[i + 1])
                                      ELSE st.result],
                          i + 1, end, m, radius2)

\* a radius search that rejects a box at distance exactly radius2
RECURSIVE Node_findInRadius_Strict(_, _, _, _)
Node_findInRadius_Strict(node, st, m, radius2) ==
    IF ~isLeaf(node)
    THEN LET s1 == IF BoxDistance2(node.left[1].box, m) < radius2
                   THEN Node_findInRadius_Strict(node.left[1], st, m, radius2) ELSE st
         IN  IF BoxDistance2(node.right[1].box, m) < radius2
             THEN Node_findInRadius_Strict(node.right[1], s1, m, radius2) ELSE s1
    ELSE InRadiusLeaf(st, node.m_begin, node.m_end, m, radius2)

\* Node<T>::findInRadius(m, radius2, result)
RECURSIVE Node_findInRadius(_, _, _, _)
Node_findInRadius(node, st, m, radius2) ==
    IF ~isLeaf(node)
    THEN LET s1 == IF BoxDistance2(node.left[1].box, m) <= radius2
                   THEN Node_findInRadius(node.left[1], st, m, radius2) ELSE st
         IN  IF BoxDistance2(node.right[1].box, m) <= radius2
             THEN Node_findInRadius(node.right[1], s1, m, radius2) ELSE s1
    ELSE InRadiusLeaf(st, node.m_begin, node.m_end, m, radius2)

----------------------------------------------------------------------------
(* PointCloud: what each call returns and leaves behind, as                 *)
(* [points, dist, result, ret]                                              *)

\* a findKNearest that does not reset the static bound before the traversal
findKNearest_NoReset(points, kdtree, d, p, k) ==
    IF kdtree = <<>>
    THEN [points |-> points, dist |-> d, result |-> <<>>, ret |-> FALSE]
    ELSE IF k >= Len(points)
    THEN [points |-> points, dist |-> d, result |-> points, ret |-> TRUE]
    ELSE IF k > 0
    THEN LET s == Node_findKNearest(kdtree[1],
                      [points |-> points, dist |-> d, result |-> <<>>], p, k)
         IN  [points |-> s.points, dist |-> s.dist, result |-> s.result, ret |-> TRUE]
    ELSE [points |-> points, dist |-> d, result |-> <<>>, ret |-> TRUE]

\* PointCloud<T>::findKNearest(p, k, result)
findKNearest(points, kdtree, d, p, k) ==
    IF kdtree = <<>>
    THEN [points |-> points, dist |-> d, result |-> <<>>, ret |-> FALSE]
    ELSE IF k >= Len(points)
    \* nth_element(begin, end, end, smaller_dist): nth == last, the call returns at once
    THEN [points |-> points, dist |-> d, result |-> points, ret |-> TRUE]
    ELSE IF k > 0
    THEN LET s == Node_findKNearest(kdtree[1],
                      [points |-> points, dist |-> DistReset, result |-> <<>>], p, k)
         IN  [points |-> s.points, dist |-> s.dist, result |-> s.result, ret |-> TRUE]
    ELSE [points |-> points, dist |-> d, result |-> <<>>, ret |-> TRUE]

\* PointCloud<T>::findInRadius(m, radius2, result); res is the caller's vector on entry
findInRadius(points, kdtree, d, res, m, radius2) ==
    IF kdtree = <<>>
    THEN [points |-> points, dist |-> d, result |-> res, ret |-> FALSE]
    ELSE LET s == Node_findInRadius(kdtree[1],
                      [points |-> points, dist |-> d, result |-> <<>>], m, radius2)
         IN  [points |-> s.points, dist |-> s.dist, result |-> s.result, ret |-> TRUE]

----------------------------------------------------------------------------
(* The cloud and its caller *)

\* longest vector the caller of Spec passes to setItems / addItems
MaxItems == 2

RECURSIVE SeqsUpTo(_, _)
SeqsUpTo(S, n) ==
    IF n = 0 THEN { <<>> }
    ELSE LET shorter == SeqsUpTo(S, n - 1)
         IN  shorter \cup { Append(t, x) : t \in { u \in shorter : Len(u) = n - 1 }, x \in S }

\* the points a caller constructs: Point(x, y, z) sets dist to 0
NewPoints(S) == { Point(c[1], c[2], c[3]) : c \in S }

\* what the caller's result vector may hold when it is passed to a query
CallerVectors == { <<>>, <<Point(3, 0, 0)>> }

Call(name, p, n) == [name |-> name, p |-> p, n |-> n]

Bool(b) == IF b THEN "true" ELSE "false"

NoSnapshot == [points |-> <<>>, kdtree |-> <<>>]

Threads == { 1, 2 }

Idle == [pc |-> "idle", p |-> Origin, k |-> 0, result |-> <<>>, stack |-> <<>>]

NoThreads == [t \in Threads |-> Idle]

Init ==
    /\ m_points = <<>>
    /\ m_kdtree = <<>>
    /\ Node_dist = DistInit
    /\ result = <<>>
    /\ ret = "none"
    /\ op = Call("PointCloud", Origin, 0)
    /\ rebuilds = 0
    /\ before = NoSnapshot
    /\ fault = FALSE
    /\ status = "running"
    /\ th = NoThreads

\* PointCloud<T>::clear()
Clear ==
    /\ status = "running"
    /\ m_kdtree' = <<>>
    /\ m_points' = <<>>
    /\ op' = Call("clear", Origin, 0)
    /\ rebuilds' = 0
    /\ before' = NoSnapshot
    /\ result' = <<>>
    /\ ret' = "none"
    /\ UNCHANGED <<Node_dist, fault, status, th>>

\* PointCloud<T>::setItems(items)
SetItems(items) ==
    /\ status = "running"
    /\ m_kdtree' = <<>>
    /\ m_points' = items
    /\ op' = Call("setItems", Origin, 0)
    /\ rebuilds' = 0
    /\ before' = NoSnapshot
    /\ result' = <<>>
    /\ ret' = "none"
    /\ UNCHANGED <<Node_dist, fault, status, th>>

\* PointCloud<T>::addItems(items)
AddItems(items) ==
    /\ status = "running"
    /\ Len(m_points) + Len(items) <= MaxCloud
    /\ m_kdtree' = <<>>
    /\ m_points' = m_points \o items
    /\ op' = Call("addItems", Origin, 0)
    /\ rebuilds' = 0
    /\ before' = NoSnapshot
    /\ result' = <<>>
    /\ ret' = "none"
    /\ UNCHANGED <<Node_dist, fault, status, th>>

\* an addItem that leaves the tree in place
AddItem_KeepsTree(item) ==
    /\ status = "running"
    /\ Len(m_points) + 1 <= MaxCloud
    /\ m_kdtree' = m_kdtree
    /\ m_points' = Append(m_points, item)
    /\ op' = Call("addItem", Origin, 0)
    /\ rebuilds' = 0
    /\ before' = NoSnapshot
    /\ result' = <<>>
    /\ ret' = "none"
    /\ UNCHANGED <<Node_dist, fault, status, th>>

\* PointCloud<T>::addItem(item)
AddItem(item) ==
    /\ status = "running"
    /\ Len(m_points) + 1 <= MaxCloud
    /\ m_kdtree' = <<>>
    /\ m_points' = Append(m_points, item)
    /\ op' = Call("addItem", Origin, 0)
    /\ rebuilds' = 0
    /\ before' = NoSnapshot
    /\ result' = <<>>
    /\ ret' = "none"
    /\ UNCHANGED <<Node_dist, fault, status, th>>

\* PointCloud<T>::rebuildTree().  On an empty buffer the root's crop reads points[0]
\* of an empty vector: the read either traps or yields garbage.
RebuildTree ==
    /\ status = "running"
    /\ \E garbage \in Garbage : \E o \in NodeCtor(m_points, 0, Len(m_points), garbage) :
          /\ fault' = (fault \/ o.fault)
          /\ \/ /\ m_points' = o.points
                /\ m_kdtree' = <<o.node>>
                /\ rebuilds' = IF rebuilds < 2 THEN rebuilds + 1 ELSE 2
                /\ status' = status
             \/ /\ o.fault
                /\ status' = "crashed"
                /\ UNCHANGED <<m_points, m_kdtree, rebuilds>>
    /\ op' = Call("rebuildTree", Origin, 0)
    /\ before' = [points |-> m_points, kdtree |-> m_kdtree]
    /\ result' = <<>>
    /\ ret' = "none"
    /\ UNCHANGED <<Node_dist, th>>

\* a call of PointCloud<T>::findKNearest(p, k, result)
FindKNearest(p, k) ==
    /\ status = "running"
    /\ LET r == findKNearest(m_points, m_kdtree, Node_dist, p, k)
       IN  /\ m_points' = r.points
           /\ Node_dist' = r.dist
           /\ result' = r.result
           /\ ret' = Bool(r.ret)
    /\ op' = Call("findKNearest", p, k)
    /\ before' = NoSnapshot
    /\ UNCHANGED <<m_kdtree, rebuilds, fault, status, th>>

\* a call of PointCloud<T>::findInRadius(m, radius2, result)
FindInRadius(m, radius2) ==
    /\ status = "running"
    /\ \E res \in CallerVectors :
          LET r == findInRadius(m_points, m_kdtree, Node_dist, res, m, radius2)
          IN  /\ m_points' = r.points
              /\ Node_dist' = r.dist
              /\ result' = r.result
              /\ ret' = Bool(r.ret)
    /\ op' = Call("findInRadius", m, radius2)
    /\ before' = NoSnapshot
    /\ UNCHANGED <<m_kdtree, rebuilds, fault, status, th>>

\* a caller that constructs a cloud and then calls its operations in any order
Next ==
    \/ Clear
    \/ \E items \in SeqsUpTo(NewPoints(CloudPointSet), MaxItems) : SetItems(items)
    \/ \E items \in SeqsUpTo(NewPoints(CloudPointSet), MaxItems) : AddItems(items)
    \/ \E item \in NewPoints(CloudPointSet) : AddItem(item)
    \/ RebuildTree
    \/ \E p \in CloudQuerySet, k \in 0..MaxK : FindKNearest(p, k)
    \/ \E m \in CloudQuerySet, radius2 \in RadiusSet : FindInRadius(m, radius2)

Spec == Init /\ [][Next]_vars

\* a caller that has just passed any vector of up to MaxPoints points to setItems on a
\* new cloud, then calls rebuildTree once or twice and issues one query
InitTree ==
    /\ m_points \in SeqsUpTo(NewPoints(PointSet), MaxPoints)
    /\ m_kdtree = <<>>
    /\ Node_dist = DistInit
    /\ result = <<>>
    /\ ret = "none"
    /\ op = Call("setItems", Origin, 0)
    /\ rebuilds = 0
    /\ before = NoSnapshot
    /\ fault = FALSE
    /\ status = "running"
    /\ th = NoThreads

NextTree ==
    \/ rebuilds < 2 /\ ret = "none" /\ RebuildTree
    \/ \E p \in QuerySet, k \in 0..MaxK : ret = "none" /\ FindKNearest(p, k)
    \/ \E m \in QuerySet, radius2 \in RadiusSet : ret = "none" /\ FindInRadius(m, radius2)

SpecTree == InitTree /\ [][NextTree]_vars

----------------------------------------------------------------------------
(* Two threads that call findKNearest on one built cloud at the same time.     *)
(* Node<T>::dist is one static object and the cached distances live in the     *)
(* shared buffer; a step of a thread holds at most one read or write of the    *)
(* bound.  A thread's stack holds the pending parts of the recursion of        *)
(* Node::findKNearest, the innermost last.                                     *)

Frame(kind, node, i, t) == [kind |-> kind, node |-> node, i |-> i, t |-> t]

Top(stack) == stack[Len(stack)]

Pop(stack) == SubSeq(stack, 1, Len(stack) - 1)

\* PointCloud::findKNearest up to and including the reset of the bound
Begin(t, p, k) ==
    /\ th[t].pc = "idle"
    /\ m_kdtree # <<>>
    /\ IF k >= Len(m_points)
       THEN /\ th' = [th EXCEPT ![t] = [pc |-> "done", p |-> p, k |-> k,
                                        result |-> m_points, stack |-> <<>>]]
            /\ UNCHANGED Node_dist
       ELSE IF k > 0
       THEN /\ Node_dist' = DistReset
            /\ th' = [th EXCEPT ![t] = [pc |-> "run", p |-> p, k |-> k, result |-> <<>>,
                                        stack |-> <<Frame("enter", m_kdtree[1], 0, 0)>>]]
       ELSE /\ th' = [th EXCEPT ![t] = [pc |-> "done", p |-> p, k |-> k,
                                        result |-> <<>>, stack |-> <<>>]]
            /\ UNCHANGED Node_dist
    /\ UNCHANGED <<m_points, m_kdtree, result, ret, op, rebuilds, before, fault, status>>

\* entry of Node::findKNearest: on an internal node the test tl < dist && tl < tr
Enter(t) ==
    /\ th[t].pc = "run" /\ th[t].stack # <<>> /\ Top(th[t].stack).kind = "enter"
    /\ LET node == Top(th[t].stack).node
           rest == Pop(th[t].stack)
       IN  IF isLeaf(node)
           THEN th' = [th EXCEPT ![t].stack = Append(rest, Frame("leaf", node, node.m_begin, 0))]
           ELSE LET tl == BoxDistance2(node.left[1].box, th[t].p)
                    tr == BoxDistance2(node.right[1].box, th[t].p)
                IN  IF tl < Node_dist /\ tl < tr
                    THEN th' = [th EXCEPT ![t].stack =
                                   rest \o <<Frame("after", node.right[1], 0, tr),
                                             Frame("enter", node.left[1], 0, 0)>>]
                    ELSE th' = [th EXCEPT ![t].stack = Append(rest, Frame("elseif", node, 0, 0))]
    /\ UNCHANGED <<m_points, m_kdtree, Node_dist, result, ret, op, rebuilds, before, fault, status>>

\* the test else if (tr < dist)
ElseIf(t) ==
    /\ th[t].pc = "run" /\ th[t].stack # <<>> /\ Top(th[t].stack).kind = "elseif"
    /\ LET node == Top(th[t].stack).node
           rest == Pop(th[t].stack)
           tl == BoxDistance2(node.left[1].box, th[t].p)
           tr == BoxDistance2(node.right[1].box, th[t].p)
       IN  IF tr < Node_dist
           THEN th' = [th EXCEPT ![t].stack =
                          rest \o <<Frame("after", node.left[1], 0, tl),
                                    Frame("enter", node.right[1], 0, 0)>>]
           ELSE th' = [th EXCEPT ![t].stack = rest]
    /\ UNCHANGED <<m_points, m_kdtree, Node_dist, result, ret, op, rebuilds, before, fault, status>>

\* back from the first child: if (tr < dist) or if (tl < dist) for the second child
After(t) ==
    /\ th[t].pc = "run" /\ th[t].stack # <<>> /\ Top(th[t].stack).kind = "after"
    /\ LET f == Top(th[t].stack)
           rest == Pop(th[t].stack)
       IN  IF f.t < Node_dist
           THEN th' = [th EXCEPT ![t].stack = Append(rest, Frame("enter", f.node, 0, 0))]
           ELSE th' = [th EXCEPT ![t].stack = rest]
    /\ UNCHANGED <<m_points, m_kdtree, Node_dist, result, ret, op, rebuilds, before, fault, status>>

\* the leaf loop's test m_points[i].distance2(p) < dist
Measure(t) ==
    /\ th[t].pc = "run" /\ th[t].stack # <<>> /\ Top(th[t].stack).kind = "leaf"
    /\ LET f == Top(th[t].stack)
           rest == Pop(th[t].stack)
       IN  IF f.i >= f.node.m_end
           THEN /\ th' = [th EXCEPT ![t].stack = rest]
                /\ UNCHANGED m_points
           ELSE LET s == KNearestMeasure([points |-> m_points, dist |-> Node_dist,
                                          result |-> th[t].result], f.i, th[t].p)
                IN  /\ m_points' = s.points
                    /\ IF At(s.points, f.i).dist < Node_dist
                       THEN th' = [th EXCEPT ![t].stack = Append(rest, Frame("insert", f.node, f.i, 0))]
                       ELSE th' = [th EXCEPT ![t].stack = Append(rest, Frame("leaf", f.node, f.i + 1, 0))]
    /\ UNCHANGED <<m_kdtree, Node_dist, result, ret, op, rebuilds, before, fault, status>>

\* the body of the leaf loop's if: m_points[i] as it is now goes into result, and the
\* bound is written once result holds k points
Insert(t) ==
    /\ th[t].pc = "run" /\ th[t].stack # <<>> /\ Top(th[t].stack).kind = "insert"
    /\ LET f == Top(th[t].stack)
           rest == Pop(th[t].stack)
           s == KNearestInsert([points |-> m_points, dist |-> Node_dist,
                                result |-> th[t].result], f.i, th[t].k)
       IN  /\ Node_dist' = s.dist
           /\ th' = [th EXCEPT ![t].result = s.result,
                               ![t].stack = Append(rest, Frame("leaf", f.node, f.i + 1, 0))]
    /\ UNCHANGED <<m_points, m_kdtree, result, ret, op, rebuilds, before, fault, status>>

\* the root's findKNearest returned: PointCloud::findKNearest returns true
Return(t) ==
    /\ th[t].pc = "run" /\ th[t].stack = <<>>
    /\ th' = [th EXCEPT ![t].pc = "done"]
    /\ UNCHANGED <<m_points, m_kdtree, Node_dist, result, ret, op, rebuilds, before, fault, status>>

\* a cloud on which setItems, with a non-empty vector, and rebuildTree have been called
InitConc ==
    /\ \E items \in SeqsUpTo(NewPoints(PointSet), MaxCloud) \ { <<>> } :
          \E o \in NodeCtor(items, 0, Len(items), Origin) :
              /\ m_points = o.points
              /\ m_kdtree = <<o.node>>
    /\ Node_dist = DistInit
    /\ result = <<>>
    /\ ret = "none"
    /\ op = Call("rebuildTree", Origin, 0)
    /\ rebuilds = 1
    /\ before = NoSnapshot
    /\ fault = FALSE
    /\ status = "running"
    /\ th = NoThreads

NextConc ==
    \/ \E t \in Threads, p \in CloudQuerySet, k \in 0..MaxK : Begin(t, p, k)
    \/ \E t \in Threads : Enter(t)
    \/ \E t \in Threads : ElseIf(t)
    \/ \E t \in Threads : After(t)
    \/ \E t \in Threads : Measure(t)
    \/ \E t \in Threads : Insert(t)
    \/ \E t \in Threads : Return(t)

SpecConc == InitConc /\ [][NextConc]_vars

----------------------------------------------------------------------------
(* Reference definitions used to state the properties *)

IsQuery(call) == call.name \in { "findKNearest", "findInRadius" }

Coordinates(s) == [i \in 1..Len(s) |-> s[i].p]

Count(s, x) == Cardinality({ i \in 1..Len(s) : s[i] = x })

\* the sequences a and b hold the same elements the same number of times
SameBag(a, b) == Len(a) = Len(b) /\ \A i \in 1..Len(a) : Count(a, a[i]) = Count(b, a[i])

Distances(s, x) == [i \in 1..Len(s) |-> Distance2(s[i], x)]

NonDecreasing(d) == \A i \in 1..(Len(d) - 1) : d[i] <= d[i + 1]

RECURSIVE Ascending(_)
Ascending(d) ==
    IF d = <<>> THEN <<>>
    ELSE LET i == CHOOSE j \in 1..Len(d) : \A l \in 1..Len(d) : d[j] <= d[l]
         IN  <<d[i]>> \o Ascending(RemoveAt(d, i))

\* squared distances of the k closest points of the buffer, found by a scan of all of it
BruteForceNearest(points, x, k) ==
    SubSeq(Ascending(Distances(points, x)), 1, IF k < Len(points) THEN k ELSE Len(points))

\* coordinates of the buffer entries within the closed ball, found by a scan of all of it
RECURSIVE BruteForceInRadius(_, _, _)
BruteForceInRadius(points, m, radius2) ==
    IF points = <<>> THEN <<>>
    ELSE IF Distance2(points[1], m) <= radius2
    THEN <<points[1].p>> \o BruteForceInRadius(Tail(points), m, radius2)
    ELSE BruteForceInRadius(Tail(points), m, radius2)

RECURSIVE Nodes(_)
Nodes(node) ==
    IF isLeaf(node) THEN { node }
    ELSE { node } \cup Nodes(node.left[1]) \cup Nodes(node.right[1])

Range(node) == node.m_begin .. (node.m_end - 1)

Built == m_kdtree # <<>> /\ status = "running"

Root == m_kdtree[1]

----------------------------------------------------------------------------
(* Properties *)

\* C1: a query returns false if and only if no rebuildTree has been executed since the
\* cloud was created or last mutated (setItems, addItems, addItem, clear); queries do
\* not invalidate the tree.
C1_QueryFailsIffNotRebuilt ==
    IsQuery(op) => (ret = "false" <=> rebuilds = 0)

\* a query fails on a non-empty cloud on which an earlier k-NN traversal took place:
\* the tree that traversal ran on has been discarded by a mutation since
C1_Witness ==
    /\ IsQuery(op)
    /\ ret = "false"
    /\ Node_dist < DistReset
    /\ m_points # <<>>

\* C2: after rebuildTree on n points, findKNearest(p, k) with 0 <= k < n returns exactly
\* k points in non-decreasing distance to p, and their distances are those of the k
\* closest points found by a brute-force scan, for every p.
C2_KNearestIsBruteForce ==
    (Built /\ op.name = "findKNearest" /\ op.n < Len(m_points)) =>
        /\ ret = "true"
        /\ Len(result) = op.n
        /\ NonDecreasing(Distances(result, op.p))
        /\ Distances(result, op.p) = BruteForceNearest(m_points, op.p, op.n)

\* C3: after rebuildTree on n points, findKNearest(p, k) with k >= n returns all n
\* points sorted by ascending squared distance to p.
C3_AllPointsAscending ==
    (Built /\ op.name = "findKNearest" /\ op.n >= Len(m_points)) =>
        /\ ret = "true"
        /\ SameBag(Coordinates(result), Coordinates(m_points))
        /\ NonDecreasing(Distances(result, op.p))

\* C4: after rebuildTree, findInRadius(m, radius2) returns exactly the buffer entries
\* whose squared distance to m is <= radius2, each once (equal to a brute-force scan as
\* a multiset).
C4_InRadiusIsBruteForce ==
    (Built /\ op.name = "findInRadius") =>
        /\ ret = "true"
        /\ \A i \in 1..Len(result) : Distance2(result[i], op.p) <= op.n
        /\ SameBag(Coordinates(result), BruteForceInRadius(m_points, op.p, op.n))

\* a radius search on a tree with two levels of internal nodes that returned some of
\* the points and left others out
C4_Witness ==
    /\ Built /\ op.name = "findInRadius"
    /\ ~isLeaf(Root)
    /\ \E n \in Nodes(Root) : n # Root /\ ~isLeaf(n)
    /\ result # <<>>
    /\ Len(result) < Len(m_points)

\* C5: tree construction never calls BoundingBox::crop on an empty range and never
\* reads a buffer index >= the buffer size.
C5_CropWithinBuffer ==
    fault = FALSE

\* C6: two findKNearest calls interleaved at the reads and writes of the bound each
\* return what they return when run alone.
C6_CallsAreIsolated ==
    \A t \in Threads :
        th[t].pc = "done" =>
            Coordinates(th[t].result)
                = Coordinates(findKNearest(m_points, m_kdtree, Node_dist, th[t].p, th[t].k).result)

\* C7 (as claimed): a second rebuildTree on unchanged data leaves the multiset of points
\* returned by every findKNearest and every findInRadius query unchanged.
C7_SamePointsAfterRebuild ==
    (Built /\ op.name = "rebuildTree" /\ before.kdtree # <<>>) =>
        \A x \in QuerySet :
            /\ \A k \in 0..MaxK :
                  SameBag(Coordinates(findKNearest(before.points, before.kdtree, Node_dist, x, k).result),
                          Coordinates(findKNearest(m_points, m_kdtree, Node_dist, x, k).result))
            /\ \A r \in RadiusSet :
                  SameBag(Coordinates(findInRadius(before.points, before.kdtree, Node_dist, <<>>, x, r).result),
                          Coordinates(findInRadius(m_points, m_kdtree, Node_dist, <<>>, x, r).result))

\* C7 (amended): a second rebuildTree on unchanged data leaves unchanged the multiset of
\* squared distances of the points every findKNearest query returns, and the multiset
\* of points every findInRadius query returns.
C7_SameDistancesAfterRebuild ==
    (Built /\ op.name = "rebuildTree" /\ before.kdtree # <<>>) =>
        \A x \in QuerySet :
            /\ \A k \in 0..MaxK :
                  SameBag(Distances(findKNearest(before.points, before.kdtree, Node_dist, x, k).result, x),
                          Distances(findKNearest(m_points, m_kdtree, Node_dist, x, k).result, x))
            /\ \A r \in RadiusSet :
                  SameBag(Coordinates(findInRadius(before.points, before.kdtree, Node_dist, <<>>, x, r).result),
                          Coordinates(findInRadius(m_points, m_kdtree, Node_dist, <<>>, x, r).result))

\* the second rebuildTree of an already built cloud left the buffer in another order
C7_Witness ==
    /\ Built /\ op.name = "rebuildTree" /\ before.kdtree # <<>>
    /\ m_points # before.points
    /\ ~isLeaf(Root)

\* C8: after rebuildTree on n >= 1 points the buffer is a permutation of what it was, a
\* node is a leaf iff its range holds at most N points, the children of an internal
\* node own [begin, median) and [median, end) with median = begin + (end - begin)/2,
\* and the leaf ranges are non-empty, pairwise disjoint and cover [0, n).
C8_TreeShape ==
    (Built /\ op.name = "rebuildTree" /\ Len(m_points) >= 1) =>
        /\ SameBag(m_points, before.points)
        /\ Root.m_begin = 0 /\ Root.m_end = Len(m_points)
        /\ \A n \in Nodes(Root) :
              /\ isLeaf(n) <=> (n.m_end - n.m_begin <= N)
              /\ isLeaf(n) <=> (n.right = <<>>)
              /\ ~isLeaf(n) =>
                    LET median == n.m_begin + (n.m_end - n.m_begin) \div 2
                    IN  /\ n.left[1].m_begin = n.m_begin /\ n.left[1].m_end = median
                        /\ n.right[1].m_begin = median /\ n.right[1].m_end = n.m_end
        /\ LET leaves == { n \in Nodes(Root) : isLeaf(n) }
           IN  /\ \A n \in leaves : n.m_begin < n.m_end
               /\ \A i \in 0..(Len(m_points) - 1) :
                     Cardinality({ n \in leaves : i \in Range(n) }) = 1

\* a rebuild that reordered the buffer and built internal nodes on two levels
C8_Witness ==
    /\ Built /\ op.name = "rebuildTree"
    /\ m_points # before.points
    /\ \E n \in Nodes(Root) : n # Root /\ ~isLeaf(n)

\* C9: in the buffer order a finished construction leaves, every point of a node's
\* range lies within the node's box, and the box's distance2 to a query point is a
\* lower bound of the squared distance from the query point to each of them.
C9_BoxContainsRange ==
    Built =>
        \A n \in Nodes(Root) : \A i \in Range(n) :
            /\ \A a \in 1..3 : n.box.p[a] <= At(m_points, i).p[a] /\ At(m_points, i).p[a] <= n.box.q[a]
            /\ \A x \in QuerySet : BoxDistance2(n.box, x) <= Distance2(At(m_points, i), x)

\* a tree with nested internal nodes whose construction reordered the buffer
C9_Witness ==
    /\ Built /\ op.name = "rebuildTree"
    /\ m_points # before.points
    /\ \E n \in Nodes(Root) : n # Root /\ ~isLeaf(n) /\ n.box # Root.box

\* the buffer as a caller hands it over: no distance cached yet
Uncached(points) == [i \in 1..Len(points) |-> [points[i] EXCEPT !.dist = 0]]

\* C10: a query on a built tree leaves the tree and the buffer's points and order as
\* they were (cached distances aside), and whatever bound and cached distances earlier
\* queries left behind, every query returns the points it returns when it is the first
\* query on that tree and buffer.
C10_QueriesDoNotInterfere ==
    /\ [][(IsQuery(op') /\ m_kdtree # <<>>) =>
             (m_kdtree' = m_kdtree /\ Coordinates(m_points') = Coordinates(m_points))]_vars
    /\ [](Built =>
            \A x \in CloudQuerySet :
                /\ \A k \in 0..MaxK :
                      Coordinates(findKNearest(m_points, m_kdtree, Node_dist, x, k).result)
                          = Coordinates(findKNearest(Uncached(m_points), m_kdtree, DistInit, x, k).result)
                /\ \A r \in RadiusSet :
                      Coordinates(findInRadius(m_points, m_kdtree, Node_dist, <<>>, x, r).result)
                          = Coordinates(findInRadius(Uncached(m_points), m_kdtree, DistInit, <<>>, x, r).result))

\* a radius query answered after a k-NN traversal lowered the static bound and left
\* cached distances in the buffer
C10_Witness ==
    /\ Built /\ op.name = "findInRadius" /\ ret = "true"
    /\ Node_dist < DistReset
    /\ \E i \in 1..Len(m_points) : m_points[i].dist # 0
    /\ ~isLeaf(Root)

====
